---- MODULE Spec2Model ----
(***************************************************************************)
(* BRVM market analysis: the collection pass of scraper/brvm_scraper.py    *)
(* (two source adapters, fallback, one CSV file per symbol) and the        *)
(* dashboard script scripts/create_dashboard.py (load_data,                *)
(* calculate_performance, the sector table, create_dashboard).             *)
(*                                                                         *)
(* Representation.                                                         *)
(*  - a text (cell of an HTML table, cell of a CSV file, symbol, file      *)
(*    name) is a sequence of one-character strings;                        *)
(*  - a number of a series is an integer count of tenths (12.5 is 125);    *)
(*    NaN stands for a missing number (None / NaN), StrVal for a value     *)
(*    that is a non-numeric string;                                        *)
(*  - a number computed by calculate_performance is an exact fraction      *)
(*    [num, den] (the rounding of binary floats is not reproduced); den = 0*)
(*    is NaN or an infinity; a power and a standard deviation that are no  *)
(*    fraction are kept as terms over their arguments;                     *)
(*  - pct_change fills a missing closing price with the one before it      *)
(*    (fill_method='pad', its default);                                    *)
(*  - a date is a day number >= 1, NaT a missing date; the text of day d   *)
(*    is "d/1/20" in the sources (DD/MM/YYYY) and "20-1-d" in a file       *)
(*    (YYYY-MM-DD);                                                        *)
(*  - a DataFrame is [columns : sequence of names, rows : sequence of      *)
(*    functions column -> value]; a CSV file has the same shape with text  *)
(*    values;                                                              *)
(*  - Raise marks an exception raised inside a conversion.                 *)
(***************************************************************************)
EXTENDS Integers, Sequences, FiniteSets, TLC

\* ---------------------------------------------------------------- bounds
MaxRows == 2

\* records of a series given to the analytics
MaxRecords == 3

\* ------------------------------------------------------- encoded values
NaN == -1
StrVal == -2
Raise == -3
NaT == 0

\* ------------------------------------------------------------------ text
Digits == <<"0", "1", "2", "3", "4", "5", "6", "7", "8", "9">>

IsDigit(c) == \E i \in 1..Len(Digits) : Digits[i] = c

DigitVal(c) == (CHOOSE i \in 1..Len(Digits) : Digits[i] = c) - 1

AllDigits(s) == Len(s) > 0 /\ \A i \in 1..Len(s) : IsDigit(s[i])

RECURSIVE DigitsToNat(_)
DigitsToNat(s) ==
    IF s = <<>> THEN 0
    ELSE 10 * DigitsToNat(SubSeq(s, 1, Len(s) - 1)) + DigitVal(s[Len(s)])

RECURSIVE NatToDigits(_)
NatToDigits(n) ==
    IF n < 10 THEN <<Digits[n + 1]>>
    ELSE NatToDigits(n \div 10) \o <<Digits[(n % 10) + 1]>>

\* str.replace(old, new) for a one-character old; new is a text
RECURSIVE Replace(_, _, _)
Replace(s, old, new) ==
    IF s = <<>> THEN <<>>
    ELSE (IF Head(s) = old THEN new ELSE <<Head(s)>>) \o Replace(Tail(s), old, new)

RECURSIVE LStrip(_)
LStrip(s) == IF s # <<>> /\ Head(s) = " " THEN LStrip(Tail(s)) ELSE s

RECURSIVE RStrip(_)
RStrip(s) ==
    IF s # <<>> /\ s[Len(s)] = " " THEN RStrip(SubSeq(s, 1, Len(s) - 1)) ELSE s

\* str.strip()
Strip(s) == RStrip(LStrip(s))

\* position of the first occurrence of c in s, 0 when absent
IndexOf(s, c) ==
    IF \E i \in 1..Len(s) : s[i] = c
    THEN CHOOSE i \in 1..Len(s) : s[i] = c /\ \A j \in 1..(i - 1) : s[j] # c
    ELSE 0

\* float(text): digits, or digits "." with at most one decimal digit (the
\* resolution of the model); surrounding blanks are accepted, anything else
\* raises ValueError
PyFloat(s) ==
    LET t == Strip(s)
        p == IndexOf(t, ".")
        whole == SubSeq(t, 1, p - 1)
        frac == SubSeq(t, p + 1, Len(t))
    IN  IF AllDigits(t) THEN 10 * DigitsToNat(t)
        ELSE IF p > 0 /\ AllDigits(whole) /\ frac = <<>> THEN 10 * DigitsToNat(whole)
        ELSE IF p > 0 /\ AllDigits(whole) /\ Len(frac) = 1 /\ AllDigits(frac)
             THEN 10 * DigitsToNat(whole) + DigitsToNat(frac)
        ELSE Raise

\* int(text): digits only (blanks around accepted), anything else raises
PyInt(s) ==
    LET t == Strip(s)
    IN  IF AllDigits(t) THEN 10 * DigitsToNat(t) ELSE Raise

\* the text of day d in a source (format '%d/%m/%Y') and in a file (ISO)
DMY(d) == NatToDigits(d) \o <<"/", "1", "/", "2", "0">>

ISO(d) == <<"2", "0", "-", "1", "-">> \o NatToDigits(d)

\* datetime.strptime(text, '%d/%m/%Y')
Strptime(s) ==
    LET p == IndexOf(s, "/")
        day == SubSeq(s, 1, p - 1)
    IN  IF p > 0 /\ AllDigits(day) /\ DigitsToNat(day) >= 1 /\ s = DMY(DigitsToNat(day))
        THEN DigitsToNat(day)
        ELSE Raise

\* pd.to_datetime of one value: an ISO text is its day, an empty (null) value
\* is NaT, anything else raises
ToDatetime(s) ==
    LET day == SubSeq(s, 6, Len(s))
    IN  IF s = <<>> THEN NaT
        ELSE IF Len(s) > 5 /\ AllDigits(day) /\ DigitsToNat(day) >= 1
                /\ s = ISO(DigitsToNat(day))
             THEN DigitsToNat(day)
        ELSE Raise

\* how to_csv writes a float, an integer and a date
FormatFloat(v) ==
    IF v = NaN THEN <<>>
    ELSE IF v = StrVal THEN <<"x">>
    ELSE NatToDigits(v \div 10) \o <<".">> \o NatToDigits(v % 10)

FormatInt(v) ==
    IF v = NaN THEN <<>>
    ELSE IF v = StrVal THEN <<"x">>
    ELSE IF v % 10 = 0 THEN NatToDigits(v \div 10)
    ELSE FormatFloat(v)

FormatDate(d) == IF d = NaT THEN <<>> ELSE ISO(d)

\* ------------------------------------------------------------ DataFrame
\* pd.DataFrame(): no column, no row
EmptyFrame == [columns |-> <<>>, rows |-> <<>>]

\* DataFrame.empty
IsEmpty(df) == Len(df.columns) = 0 \/ Len(df.rows) = 0

HasColumn(df, c) == \E i \in 1..Len(df.columns) : df.columns[i] = c

\* the order of sort_values: a < b, a missing date (NaT) after every date
Before(a, b) == a # NaT /\ (b = NaT \/ a < b)

IsSortedByDate(rows) ==
    \A i, j \in 1..Len(rows) : i < j => ~Before(rows[j].Date, rows[i].Date)

IndexPerms(n) ==
    {p \in [1..n -> 1..n] : \A i, j \in 1..n : p[i] = p[j] => i = j}

\* sort_values left out: the rows stay in source order
Unsorted(rows) == {rows}

\* DataFrame.sort_values("Date"): ascending, NaT last; the default sort
\* (kind='quicksort') is not stable, so rows of equal date come in any order
SortValues(rows) ==
    {s \in {[i \in 1..Len(rows) |-> rows[p[i]]] : p \in IndexPerms(Len(rows))} :
        IsSortedByDate(s)}

\* ---------------------------------------------- structured-API adapter
\* keys of one record of the "intraday" array, and their renaming
SikaFields ==
    <<"date", "ouverture", "plus_haut", "plus_bas", "cloture", "variation", "volume">>

SikaRename(f) ==
    CASE f = "date" -> "Date"
      [] f = "ouverture" -> "Ouverture"
      [] f = "plus_haut" -> "Plus_Haut"
      [] f = "plus_bas" -> "Plus_Bas"
      [] f = "cloture" -> "Cloture"
      [] f = "variation" -> "Variation"
      [] f = "volume" -> "Volume"
      [] OTHER -> f

RECURSIVE SelectSeq2(_, _)
SelectSeq2(s, keep) ==
    IF s = <<>> THEN <<>>
    ELSE (IF Head(s) \in keep THEN <<Head(s)>> ELSE <<>>) \o SelectSeq2(Tail(s), keep)

\* pd.DataFrame(list of dicts): a column per key met, NaN where a record has
\* no such key
SikaColumns(recs) ==
    LET met == UNION {DOMAIN recs[i] : i \in 1..Len(recs)}
        kept == SelectSeq2(SikaFields, met)
    IN  [i \in 1..Len(kept) |-> SikaRename(kept[i])]

SikaValue(rec, f) ==
    IF f \in DOMAIN rec THEN rec[f] ELSE IF f = "date" THEN <<>> ELSE NaN

SikaFieldOf(c) ==
    CHOOSE f \in {SikaFields[i] : i \in 1..Len(SikaFields)} : SikaRename(f) = c

Range(s) == {s[i] : i \in 1..Len(s)}

\* one row after the renaming, the date conversion and the symbol tag; the
\* other values are kept as the payload gives them
SikaRow(rec, cols, symbol) ==
    [c \in Range(cols) \cup {"Symbole"} |->
        IF c = "Symbole" THEN symbol
        ELSE IF c = "Date" THEN ToDatetime(SikaValue(rec, "date"))
        ELSE SikaValue(rec, SikaFieldOf(c))]

\* the symbol column put first instead of last
SymboleFirst(cols) == <<"Symbole">> \o cols

\* df["Symbole"] = symbol: a new last column
WithSymbole(cols) == cols \o <<"Symbole">>

\* scrape_sika_finance(symbol) on one response of the API: the frames it can
\* return. A response is [kind, intraday]: kind "network_error" (session.post
\* raises), "http_error" (raise_for_status raises), "malformed" (json() raises),
\* "nokey" (JSON without "intraday") or "json" (JSON with "intraday").
scrape_sika_finance(symbol, resp) ==
    IF resp.kind \in {"network_error", "http_error", "malformed"} THEN {EmptyFrame}
    ELSE IF resp.kind = "nokey" \/ Len(resp.intraday) = 0 THEN {EmptyFrame}
    ELSE LET recs == resp.intraday
             cols == SikaColumns(recs)
             rows == [i \in 1..Len(recs) |-> SikaRow(recs[i], cols, symbol)]
         IN  IF "Date" \notin Range(cols) THEN {EmptyFrame}
             ELSE IF \E i \in 1..Len(rows) : rows[i].Date = Raise THEN {EmptyFrame}
             ELSE {[columns |-> WithSymbole(cols), rows |-> s] : s \in SortValues(rows)}

\* the log record scrape_sika_finance leaves besides its info lines
SikaLog(symbol, resp, df) ==
    IF ~IsEmpty(df) THEN {}
    ELSE IF resp.kind = "nokey" \/ (resp.kind = "json" /\ Len(resp.intraday) = 0)
         THEN {[level |-> "warning", by |-> "scrape_sika_finance", symbol |-> symbol]}
    ELSE {[level |-> "error", by |-> "scrape_sika_finance", symbol |-> symbol]}

\* ------------------------------------------------- HTML-table adapter
MinCols == 6

BrvmColumns ==
    <<"Date", "Ouverture", "Plus_Haut", "Plus_Bas", "Cloture", "Volume", "Symbole">>

\* float(text) if text else None, after the decimal comma became a point
BrvmPrice(cell) ==
    LET t == Replace(Strip(cell), ",", <<".">>)
    IN  IF t = <<>> THEN NaN ELSE PyFloat(t)

\* int(text) if text else 0, after the blanks were removed
BrvmVolume(cell) ==
    LET t == Replace(Strip(cell), " ", <<>>)
    IN  IF t = <<>> THEN 0 ELSE PyInt(t)

\* the dict appended for one row of at least MinCols cells
BrvmRow(cols, symbol) ==
    [Date |-> Strptime(Strip(cols[1])),
     Ouverture |-> BrvmPrice(cols[2]),
     Plus_Haut |-> BrvmPrice(cols[3]),
     Plus_Bas |-> BrvmPrice(cols[4]),
     Cloture |-> BrvmPrice(cols[5]),
     Volume |-> BrvmVolume(cols[6]),
     Symbole |-> symbol]

RowRaises(r) ==
    \E c \in {"Date", "Ouverture", "Plus_Haut", "Plus_Bas", "Cloture", "Volume"} :
        r[c] = Raise

\* the rows of the table that have at least MinCols cells, in table order
RECURSIVE WideRows(_)
WideRows(trs) ==
    IF trs = <<>> THEN <<>>
    ELSE (IF Len(Head(trs)) >= MinCols THEN <<Head(trs)>> ELSE <<>>)
         \o WideRows(Tail(trs))

\* a try around each row instead of the whole function: the rows that cannot be
\* parsed are left out and the others are returned
scrape_brvm_partial(symbol, resp) ==
    IF resp.kind \in {"network_error", "http_error"} THEN {EmptyFrame}
    ELSE IF resp.kind = "notable" THEN {EmptyFrame}
    ELSE LET trs == WideRows(resp.rows)
             all == [i \in 1..Len(trs) |-> BrvmRow(trs[i], symbol)]
             data == SelectSeq(all, LAMBDA r : ~RowRaises(r))
         IN  IF Len(data) = 0 THEN {EmptyFrame}
             ELSE {[columns |-> BrvmColumns, rows |-> s] : s \in SortValues(data)}

\* scrape_brvm_official(symbol) on one response of the site: the frames it can
\* return. A response is [kind, rows]: kind "network_error" (session.get
\* raises), "http_error" (raise_for_status raises), "notable" (a page without
\* table.table) or "html" (a page whose first table.table has these rows, each
\* the texts of its cells).
scrape_brvm_official(symbol, resp) ==
    IF resp.kind \in {"network_error", "http_error"} THEN {EmptyFrame}
    ELSE IF resp.kind = "notable" THEN {EmptyFrame}
    ELSE LET trs == WideRows(resp.rows)
             data == [i \in 1..Len(trs) |-> BrvmRow(trs[i], symbol)]
         IN  IF \E i \in 1..Len(data) : RowRaises(data[i]) THEN {EmptyFrame}
             ELSE IF Len(data) = 0 THEN {EmptyFrame}
             ELSE {[columns |-> BrvmColumns, rows |-> s] : s \in SortValues(data)}

BrvmLog(symbol, resp, df) ==
    IF ~IsEmpty(df) THEN {}
    ELSE IF resp.kind \in {"network_error", "http_error"}
            \/ (resp.kind = "html"
                /\ \E i \in 1..Len(WideRows(resp.rows)) :
                      RowRaises(BrvmRow(WideRows(resp.rows)[i], symbol)))
         THEN {[level |-> "error", by |-> "scrape_brvm_official", symbol |-> symbol]}
    ELSE {[level |-> "warning", by |-> "scrape_brvm_official", symbol |-> symbol]}

\* ------------------------------------------------------------ CSV files
NumericColumns == {"Ouverture", "Plus_Haut", "Plus_Bas", "Cloture", "Volume"}

\* a column pandas holds as integers: every value a whole number
IntColumn(df, c) ==
    \A i \in 1..Len(df.rows) : df.rows[i][c] >= 0 /\ df.rows[i][c] % 10 = 0

\* the text to_csv writes for one value
FormatCell(df, c, v) ==
    IF c = "Date" THEN FormatDate(v)
    ELSE IF c = "Symbole" THEN v
    ELSE IF c = "Volume" /\ IntColumn(df, c) THEN FormatInt(v)
    ELSE FormatFloat(v)

\* to_csv without index=False: the row numbers come first, under an empty name
to_csv_index(df) ==
    [columns |-> <<"">> \o df.columns,
     rows |-> [i \in 1..Len(df.rows) |->
                 [c \in Range(df.columns) \cup {""} |->
                    IF c = "" THEN NatToDigits(i - 1)
                    ELSE FormatCell(df, c, df.rows[i][c])]]]

\* DataFrame.to_csv(path, index=False): the header and one text row per record
to_csv(df) ==
    [columns |-> df.columns,
     rows |-> [i \in 1..Len(df.rows) |->
                 [c \in Range(df.columns) |-> FormatCell(df, c, df.rows[i][c])]]]

\* f"data/{symbol.replace('/', '-')}_historical.csv", without the directory
FileName(symbol) == Replace(symbol, "/", <<"-">>) \o <<"_", "historical.csv">>

\* file_name.split('_')[0]
KeyOfFile(name) ==
    IF IndexOf(name, "_") = 0 THEN name ELSE SubSeq(name, 1, IndexOf(name, "_") - 1)

\* one cell of a column that is neither Date nor Symbole as read_csv types it:
\* a number, NaN for an empty cell, else the text as a string
ReadCsvCell(text) ==
    IF text = <<>> THEN NaN ELSE IF PyFloat(text) = Raise THEN StrVal ELSE PyFloat(text)

\* one cell as read_csv and the conversions of load_data leave it
LoadCell(c, text) ==
    IF c = "Date" THEN ToDatetime(text)
    ELSE IF c = "Symbole" THEN text
    ELSE IF c \in NumericColumns
         THEN (IF ReadCsvCell(text) = StrVal THEN NaN ELSE ReadCsvCell(text))
    ELSE ReadCsvCell(text)

\* the rows of one file after read_csv, to_datetime and to_numeric
LoadRows(file) ==
    [i \in 1..Len(file.rows) |->
        [c \in Range(file.columns) |-> LoadCell(c, file.rows[i][c])]]

\* the body of the try of load_data raises: no Date column (KeyError, or a
\* file read_csv cannot parse), or a date to_datetime cannot parse
LoadRaises(file) ==
    \/ "Date" \notin Range(file.columns)
    \/ \E i \in 1..Len(file.rows) : ToDatetime(file.rows[i].Date) = Raise

\* the frames the try of load_data can produce for one readable file
LoadFrames(file) ==
    {[columns |-> file.columns, rows |-> s] : s \in SortValues(LoadRows(file))}

\* the function f with f[k] = v
Put(f, k, v) == [x \in DOMAIN f \cup {k} |-> IF x = k THEN v ELSE f[x]]

\* the mappings that give every key of choice one of the values choice allows
RECURSIVE Mappings(_, _)
Mappings(keys, choice) ==
    IF keys = {} THEN {[k \in {} |-> 0]}
    ELSE LET k == CHOOSE x \in keys : TRUE
         IN  {Put(m, k, v) : m \in Mappings(keys \ {k}, choice), v \in choice[k]}

\* the loop given up at the first file that cannot be read
load_data_abort(dir) ==
    IF \E n \in DOMAIN dir : LoadRaises(dir[n]) THEN {[k \in {} |-> 0]}
    ELSE Mappings({KeyOfFile(n) : n \in DOMAIN dir},
                  [k \in {KeyOfFile(n) : n \in DOMAIN dir} |->
                      UNION {LoadFrames(dir[n]) : n \in {g \in DOMAIN dir : KeyOfFile(g) = k}}])

\* load_data(data_dir): the mappings it can return for a directory. Every
\* readable file is stored under the key cut from its name; when two files
\* have the same key the one glob lists last stays.
load_data(dir) ==
    LET good == {n \in DOMAIN dir : ~LoadRaises(dir[n])}
        keys == {KeyOfFile(n) : n \in good}
        choice == [k \in keys |->
                     UNION {LoadFrames(dir[n]) : n \in {g \in good : KeyOfFile(g) = k}}]
    IN  Mappings(keys, choice)

\* ------------------------------------------------------------ analytics
EmptyDict == [k \in {} |-> 0]

\* bool(dict)
Truthy(d) == DOMAIN d # {}

Dates(df) == {df.rows[i].Date : i \in 1..Len(df.rows)} \ {NaT}

\* Series.min() and Series.max() of the Date column: missing dates skipped
MinDate(df) ==
    IF Dates(df) = {} THEN NaT ELSE CHOOSE d \in Dates(df) : \A e \in Dates(df) : d <= e

MaxDate(df) ==
    IF Dates(df) = {} THEN NaT ELSE CHOOSE d \in Dates(df) : \A e \in Dates(df) : d >= e

\* calculate_performance(df) raises: with two records or more it reads the
\* Cloture column first (KeyError when the file has none)
PerformanceRaises(df) == Len(df.rows) >= 2 /\ ~HasColumn(df, "Cloture")

\* --- numbers of the metrics: exact fractions num/den in lowest terms with
\* den > 0; den = 0 is a value that is no finite number (NaN, or an infinity
\* with the sign of num)
RECURSIVE GCD(_, _)
GCD(a, b) == IF b = 0 THEN a ELSE GCD(b, a % b)

Abs(n) == IF n < 0 THEN 0 - n ELSE n

Sign(n) == IF n > 0 THEN 1 ELSE IF n < 0 THEN 0 - 1 ELSE 0

Frac(n, d) ==
    IF d = 0 THEN [num |-> Sign(n), den |-> 0]
    ELSE LET g == GCD(Abs(n), Abs(d))
         IN  [num |-> (Sign(d) * n) \div g, den |-> Abs(d) \div g]

QNaN == Frac(0, 0)

Finite(q) == q.den # 0

\* a value of a numeric column as a float
FromNum(v) == IF v = NaN THEN QNaN ELSE Frac(v, 1)

QAdd(a, b) ==
    IF Finite(a) /\ Finite(b) THEN Frac(a.num * b.den + b.num * a.den, a.den * b.den)
    ELSE QNaN

QSub(a, b) ==
    IF Finite(a) /\ Finite(b) THEN Frac(a.num * b.den - b.num * a.den, a.den * b.den)
    ELSE QNaN

QMul(a, b) ==
    IF Finite(a) /\ Finite(b) THEN Frac(a.num * b.num, a.den * b.den) ELSE QNaN

\* float division: x / 0 is an infinity or NaN (numpy warns, it does not raise)
QDiv(a, b) ==
    IF Finite(a) /\ Finite(b) THEN Frac(a.num * b.den, a.den * b.num) ELSE QNaN

\* a < b as floats: False when either is NaN
QLess(a, b) == Finite(a) /\ Finite(b) /\ a.num * b.den < b.num * a.den

\* --- the Series operations of calculate_performance, on sequences
\* the column of a frame as a sequence
Column(df, c) == [i \in 1..Len(df.rows) |-> df.rows[i][c]]

\* the fill of pct_change (fill_method='pad', its default): a missing value
\* takes the last value present before it
RECURSIVE Pad(_, _)
Pad(s, i) == IF i = 0 THEN NaN ELSE IF s[i] # NaN THEN s[i] ELSE Pad(s, i - 1)

\* Series.pct_change(): the relative change from the record before; the first
\* record has none
pct_change(s) ==
    [i \in 1..Len(s) |->
        IF i = 1 \/ Pad(s, i - 1) = NaN THEN QNaN
        ELSE QSub(Frac(Pad(s, i), Pad(s, i - 1)), Frac(1, 1))]

\* the values present in a Series of floats
Valid(s) == SelectSeq(s, Finite)

\* the product of the values present among the first i
RECURSIVE ProdTo(_, _)
ProdTo(s, i) ==
    IF i = 0 THEN Frac(1, 1)
    ELSE IF Finite(s[i]) THEN QMul(ProdTo(s, i - 1), s[i]) ELSE ProdTo(s, i - 1)

\* Series.cumprod(): missing values are skipped and stay missing
cumprod(s) == [i \in 1..Len(s) |-> IF Finite(s[i]) THEN ProdTo(s, i) ELSE QNaN]

\* the largest of the values present among the first i (NaN when none)
RECURSIVE MaxTo(_, _)
MaxTo(s, i) ==
    IF i = 0 THEN QNaN
    ELSE IF ~Finite(s[i]) THEN MaxTo(s, i - 1)
    ELSE IF QLess(s[i], MaxTo(s, i - 1)) THEN MaxTo(s, i - 1) ELSE s[i]

\* the smallest of the values present among the first i (NaN when none)
RECURSIVE MinTo(_, _)
MinTo(s, i) ==
    IF i = 0 THEN QNaN
    ELSE IF ~Finite(s[i]) THEN MinTo(s, i - 1)
    ELSE IF QLess(MinTo(s, i - 1), s[i]) THEN MinTo(s, i - 1) ELSE s[i]

\* the running maximum left out: every value is its own maximum
cummax_self(s) == s

\* Series.cummax(): missing values are skipped and stay missing
cummax(s) == [i \in 1..Len(s) |-> IF Finite(s[i]) THEN MaxTo(s, i) ELSE QNaN]

\* Series.max() and Series.min(): missing values skipped
SeriesMax(s) == MaxTo(s, Len(s))

SeriesMin(s) == MinTo(s, Len(s))

\* Series.std() (sample standard deviation, divisor n - 1): NaN with fewer
\* than 2 values present, 0 when they are all equal, else a positive number
\* kept as the term std(values)
Std(s) ==
    LET v == Valid(s)
    IN  IF Len(v) < 2 THEN QNaN
        ELSE IF \A i \in 1..Len(v) : v[i] = v[1] THEN Frac(0, 1)
        ELSE [std |-> v]

\* std * np.sqrt(252) * 100: 0 and NaN stay, a positive number is kept as a term
Sqrt252x100(sd) == IF "std" \in DOMAIN sd THEN [sqrt252x100 |-> sd] ELSE sd

\* volatility > 0
Positive(x) == IF "num" \in DOMAIN x THEN QLess(Frac(0, 1), x) ELSE TRUE

DaysPerYear4 == 1461

\* duration_days / 365.25
DurationYears(days) == IF days = NaN THEN QNaN ELSE Frac(4 * days, DaysPerYear4)

\* ((final / initial) ** (1 / years) - 1) * 100: a power of 1 is 1, a power of
\* NaN is NaN, any other power is kept as the term pow(ratio, 1 / years)
AnnualReturn(ratio, years) ==
    IF ~Finite(ratio) THEN QNaN
    ELSE IF ratio = Frac(1, 1) THEN Frac(0, 1)
    ELSE [pow |-> ratio, inverse_years |-> years]

\* (annual_return / 100 - risk_free_rate) / (volatility / 100), a term
Sharpe(annual, vol) == [excess_of |-> annual, risk_free_pct |-> 3, over |-> vol]

\* df['Cloture'].iloc[i]: the closing price of record i, a KeyError when the
\* frame has no such column
ClotureAt(df, i) == IF HasColumn(df, "Cloture") THEN df.rows[i].Cloture ELSE Raise

\* lines 80, 110, 111: the derived columns
DerivedColumns == {"Rendement", "Cumul", "Drawdown"}

Rendement(df) == pct_change(Column(df, "Cloture"))

Cumul(df) == LET r == Rendement(df) IN cumprod([i \in 1..Len(r) |-> QAdd(Frac(1, 1), r[i])])

\* the decline measured from the start of the index, not from its peak
DrawdownFromStart(df) ==
    LET c == Cumul(df)
    IN  [i \in 1..Len(c) |-> QSub(c[i], Frac(1, 1))]

Drawdown(df) ==
    LET c == Cumul(df)
        m == cummax(c)
    IN  [i \in 1..Len(c) |-> QSub(QDiv(c[i], m[i]), Frac(1, 1))]

\* the assignment of a column that also clears the Volume column
SetColumnClearing(df, c, values) ==
    [columns |-> IF HasColumn(df, c) THEN df.columns ELSE Append(df.columns, c),
     rows |-> [i \in 1..Len(df.rows) |->
                  [k \in DOMAIN df.rows[i] \cup {c} |->
                      IF k = c THEN values[i]
                      ELSE IF k = "Volume" THEN NaN ELSE df.rows[i][k]]]]

\* df[c] = values: the column is appended when new, overwritten when present
SetColumn(df, c, values) ==
    [columns |-> IF HasColumn(df, c) THEN df.columns ELSE Append(df.columns, c),
     rows |-> [i \in 1..Len(df.rows) |->
                  [k \in DOMAIN df.rows[i] \cup {c} |->
                      IF k = c THEN values[i] ELSE df.rows[i][k]]]]

\* the return written as a ratio, without the percentage scale
TotalReturnRatio(initial_price, final_price) ==
    QSub(QDiv(FromNum(final_price), FromNum(initial_price)), Frac(1, 1))

\* line 93: (final_price / initial_price - 1) * 100
TotalReturn(initial_price, final_price) ==
    QMul(QSub(QDiv(FromNum(final_price), FromNum(initial_price)), Frac(1, 1)),
         Frac(100, 1))

\* the annualization applied whatever the duration
AnnualizedAlways(ratio, years) == AnnualReturn(ratio, years)

\* line 96: the annualization if duration_years > 0, else 0
Annualized(ratio, years) ==
    IF QLess(Frac(0, 1), years) THEN AnnualReturn(ratio, years) ELSE Frac(0, 1)

\* line 99: df['Rendement'].std() * np.sqrt(252) * 100
Volatility(df) == Sqrt252x100(Std(Rendement(df)))

\* line 103: the Sharpe ratio if volatility > 0, else 0
SharpeRatio(annual, volatility) ==
    IF Positive(volatility) THEN Sharpe(annual, volatility) ELSE Frac(0, 1)

\* line 112: df['Drawdown'].min() * 100
MaxDrawdown(df) == QMul(SeriesMin(Drawdown(df)), Frac(100, 1))

\* lines 79-128 after the guard: the metrics record
Metrics(df) ==
    LET days == IF Dates(df) = {} THEN NaN ELSE MaxDate(df) - MinDate(df)
        years == DurationYears(days)
        initial_price == ClotureAt(df, 1)
        final_price == ClotureAt(df, Len(df.rows))
        ratio == QDiv(FromNum(final_price), FromNum(initial_price))
        annual == Annualized(ratio, years)
    IN  [start_date |-> MinDate(df),
         end_date |-> MaxDate(df),
         duration_days |-> days,
         duration_years |-> years,
         initial_price |-> initial_price,
         final_price |-> final_price,
         total_return |-> TotalReturn(initial_price, final_price),
         annual_return |-> annual,
         volatility |-> Volatility(df),
         sharpe_ratio |-> SharpeRatio(annual, Volatility(df)),
         max_daily_return |-> QMul(SeriesMax(Rendement(df)), Frac(100, 1)),
         min_daily_return |-> QMul(SeriesMin(Rendement(df)), Frac(100, 1)),
         max_drawdown |-> MaxDrawdown(df)]

\* the guard written len(df) < 1: a single record gets a metrics record
calculate_performance_one(df) ==
    IF IsEmpty(df) \/ Len(df.rows) < 1 THEN EmptyDict
    ELSE [start_date |-> MinDate(df),
          initial_price |-> ClotureAt(df, 1)]

\* calculate_performance(df): {} for fewer than 2 records, else the metrics
calculate_performance(df) ==
    IF IsEmpty(df) \/ Len(df.rows) < 2 THEN EmptyDict ELSE Metrics(df)

\* the series losing its first record in the call
ProcessedShorter(df) ==
    IF IsEmpty(df) \/ Len(df.rows) < 2 \/ ~HasColumn(df, "Cloture") THEN df
    ELSE [df EXCEPT !.rows = Tail(df.rows)]

\* the series after calculate_performance(df): unchanged when the guard
\* returned or line 80 raised, else with the three derived columns
Processed(df) ==
    IF IsEmpty(df) \/ Len(df.rows) < 2 \/ ~HasColumn(df, "Cloture") THEN df
    ELSE SetColumn(SetColumn(SetColumn(df, "Rendement", Rendement(df)),
                             "Cumul", Cumul(df)),
                   "Drawdown", Drawdown(df))

\* the performance loop of create_dashboard: a symbol is kept when its
\* calculation neither raised nor returned {}
Performances(frames) ==
    LET kept == {k \in DOMAIN frames :
                    /\ ~PerformanceRaises(frames[k])
                    /\ Truthy(calculate_performance(frames[k]))}
    IN  [k \in kept |-> calculate_performance(frames[k])]

\* ------------------------------------------------- sector classification
\* the sectors dict of get_sector_classification, in its order
sectors ==
    <<[sector |-> "Banque",
       symbols |-> <<<<"S", "G", "B", "C", "I">>,
                     <<"B", "O", "A">>,
                     <<"E", "C", "O", "B", "A", "N", "K">>,
                     <<"S", "I", "B">>,
                     <<"N", "S", "I", "A">>,
                     <<"B", "I", "C", "I">>,
                     <<"B", "D", "M">>,
                     <<"C", "O", "R", "I", "S">>>>],
      [sector |-> "Agro-industrie",
       symbols |-> <<<<"S", "O", "G", "B">>,
                     <<"S", "A", "P", "H">>,
                     <<"P", "A", "L", "C">>,
                     <<"S", "I", "F", "C", "A">>,
                     <<"S", "I", "C", "O", "R">>,
                     <<"S", "U", "C", "R", "I", "V", "O", "I", "R", "E">>>>],
      [sector |-> "Distribution",
       symbols |-> <<<<"C", "F", "A", "O">>,
                     <<"B", "E", "R", "N", "A", "B", "E">>,
                     <<"V", "I", "V", "O">>,
                     <<"T", "O", "T", "A", "L">>>>],
      [sector |-> "Services publics",
       symbols |-> <<<<"S", "O", "D", "E", "C", "I">>,
                     <<"C", "I", "E">>,
                     <<"S", "O", "N", "A", "T", "E", "L">>,
                     <<"O", "N", "A", "T", "E", "L">>>>],
      [sector |-> "Industrie",
       symbols |-> <<<<"N", "E", "S", "T", "L", "E">>,
                     <<"S", "O", "L", "I", "B", "R", "A">>,
                     <<"S", "M", "B">>,
                     <<"U", "N", "I", "W", "A", "X">>,
                     <<"F", "I", "L", "T", "I", "S", "A", "C">>,
                     <<"A", "I", "R">>>>],
      [sector |-> "Transport",
       symbols |-> <<<<"B", "O", "L", "L", "O", "R", "E">>,
                     <<"M", "O", "V", "I", "S">>,
                     <<"S", "E", "T", "A", "O">>>>]>>

\* the loop of lines 143-145 after the first n sectors: symbol -> sector, a
\* later assignment replacing an earlier one
RECURSIVE SectorsUpTo(_)
SectorsUpTo(n) ==
    IF n = 0 THEN EmptyDict
    ELSE LET prev == SectorsUpTo(n - 1)
             here == Range(sectors[n].symbols)
         IN  [x \in DOMAIN prev \cup here |->
                 IF x \in here THEN sectors[n].sector ELSE prev[x]]

\* get_sector_classification()
get_sector_classification == SectorsUpTo(Len(sectors))

\* x.startswith(prefix)
StartsWith(x, prefix) == Len(x) >= Len(prefix) /\ SubSeq(x, 1, Len(prefix)) = prefix

BRVM == <<"B", "R", "V", "M">>

\* the default of the lookup written the other way round
SectorDefaultSwapped(x) == IF StartsWith(x, BRVM) THEN "Autres" ELSE "Indice"

\* 'Indice' if x.startswith('BRVM') else 'Autres'
SectorDefault(x) == IF StartsWith(x, BRVM) THEN "Indice" ELSE "Autres"

\* symbol_to_sector.get(x, 'Indice' if x.startswith('BRVM') else 'Autres')
SectorOf(x) ==
    IF x \in DOMAIN get_sector_classification THEN get_sector_classification[x]
    ELSE SectorDefault(x)

\* ------------------------------------------------------------- inputs
BRVM_Composite ==
    <<"B", "R", "V", "M", "-", "C", "o", "m", "p", "o", "s", "i", "t", "e">>

BRVM_30 == <<"B", "R", "V", "M", "-", "3", "0">>

\* self.indices
indices == <<BRVM_Composite, BRVM_30>>

SNTS == <<"S", "N", "T", "S">>

\* every sequence over S of length at most MaxRows
SeqsUpTo(S) == UNION {[1..n -> S] : n \in 0..MaxRows}

NoResponse == [kind |-> "none", rows |-> <<>>]

\* pages the stock list request can meet: a failure, a page without the table,
\* a table of rows (a row of one cell is skipped)
StockResponses ==
    {[kind |-> "network_error", rows |-> <<>>],
     [kind |-> "notable", rows |-> <<>>],
     [kind |-> "html", rows |-> <<<<SNTS>>>>],
     [kind |-> "html", rows |-> <<<<SNTS, <<"S">>>>>>],
     [kind |-> "html", rows |-> <<<<<<"S", "/", "N">>, <<"S">>>>>>]}

\* one record of the API: the same value for the three prices other than the
\* closing price, variation 0
SikaRecord(date, open, close, volume) ==
    [date |-> date, ouverture |-> open, plus_haut |-> open, plus_bas |-> open,
     cloture |-> close, variation |-> 0, volume |-> volume]

\* a record of day 2 / of day 2 again / of day 1 / of day 1 again, its opening
\* price a string and its volume null / without date and closing price (null) /
\* with a date that is no date / without the key "date"
SikaRecords ==
    {SikaRecord(ISO(2), 10, 10, 10),
     SikaRecord(ISO(2), 10, 25, 10),
     SikaRecord(ISO(1), 15, 20, 10),
     SikaRecord(ISO(1), StrVal, 30, NaN),
     SikaRecord(<<>>, 10, NaN, 10),
     SikaRecord(<<"x">>, 10, 10, 10),
     [ouverture |-> 10, plus_haut |-> 10, plus_bas |-> 10, cloture |-> 40,
      variation |-> 0, volume |-> 10]}

SikaFailures ==
    {[kind |-> k, intraday |-> <<>>] :
        k \in {"network_error", "http_error", "malformed", "nokey"}}

SmallSikaFailures == {r \in SikaFailures : r.kind \in {"network_error", "nokey"}}

SikaResponses ==
    SikaFailures \cup {[kind |-> "json", intraday |-> p] : p \in SeqsUpTo(SikaRecords)}

\* the responses of the pass over the whole universe: records of day 1 with
\* a string for a price
SmallSikaResponses ==
    SmallSikaFailures
    \cup {[kind |-> "json", intraday |-> p] :
            p \in SeqsUpTo({SikaRecord(ISO(1), StrVal, 30, NaN)})}

\* rows of the history table: day 2 with a decimal comma / day 1 with only a
\* closing price / day 1 again without closing price and a volume with a
\* blank / a date that is no date / a price with a blank / five cells only
BrvmTableRows ==
    {<<DMY(2), <<"1">>, <<"1">>, <<"1">>, <<"1", ",", "5">>, <<"1">>>>,
     <<DMY(1), <<>>, <<>>, <<>>, <<"2">>, <<>>>>,
     <<DMY(1), <<"1">>, <<"1">>, <<"1">>, <<>>, <<"1", " ", "0">>>>,
     <<<<"x">>, <<"1">>, <<"1">>, <<"1">>, <<"1">>, <<"1">>>>,
     <<DMY(2), <<"1", " ", "2", ",", "5">>, <<"1">>, <<"1">>, <<"1">>, <<"1">>>>,
     <<DMY(2), <<"1">>, <<"1">>, <<"1">>, <<"1">>>>}

BrvmFailures ==
    {[kind |-> k, rows |-> <<>>] : k \in {"network_error", "http_error", "notable"}}

SmallBrvmFailures == {r \in BrvmFailures : r.kind \in {"network_error", "notable"}}

BrvmResponses ==
    BrvmFailures \cup {[kind |-> "html", rows |-> p] : p \in SeqsUpTo(BrvmTableRows)}

SmallBrvmResponses ==
    SmallBrvmFailures
    \cup {[kind |-> "html", rows |-> p] :
            p \in SeqsUpTo({<<DMY(2), <<"1">>, <<"1">>, <<"1">>, <<"1", ",", "5">>, <<"1">>>>})}

\* ---------------------------------------------------------------- state
VARIABLES
    pc,            \* where the run is: the pass, then the dashboard script
    use_sika,      \* arguments of get_all_historical_data
    use_brvm,
    all_symbols,   \* the universe of the pass, a sequence of [symbol, name]
    idx,           \* position of the loop in all_symbols
    calls,         \* the adapters called for the current symbol, in order
    response,      \* what the last adapter call received
    df_sika,
    df_brvm,
    df_combined,
    files,         \* the data directory: file name -> CSV content
    log,           \* warnings, errors and save notices recorded
    data_frames,   \* what load_data returned
    performances,  \* the performances dict of create_dashboard
    perf_df,       \* the metrics table of create_dashboard: symbol -> row
    outputs,       \* the artifacts written
    trace,         \* the pass so far: requests, saves, warnings, sleeps in order
    boot           \* run_analysis.main: what it finds and what it has done

vars ==
    <<pc, use_sika, use_brvm, all_symbols, idx, calls, response, df_sika, df_brvm,
      df_combined, files, log, data_frames, performances, perf_df, outputs,
      trace, boot>>

symbol == all_symbols[idx].symbol

\* the bootstrap is not running
NoBoot == [at |-> "none"]

\* two requests for one call of an adapter: the request sent again
RequestsRetried(source, i) ==
    <<[op |-> "request", source |-> source, idx |-> i],
      [op |-> "request", source |-> source, idx |-> i]>>

\* what one call of an adapter for the symbol at position i sends: the one
\* session.post of line 106, the one session.get of line 177
Requests(source, i) == <<[op |-> "request", source |-> source, idx |-> i]>>

\* get_all_stocks() on one response: the listed symbols, [] on any failure
get_all_stocks(resp) ==
    IF resp.kind # "html" THEN <<>>
    ELSE LET trs == SelectSeq(resp.rows, LAMBDA cols : Len(cols) >= 2)
         IN  [i \in 1..Len(trs) |-> [symbol |-> Strip(trs[i][1]), name |-> Strip(trs[i][2])]]

Init ==
    /\ pc = "start"
    /\ use_sika \in BOOLEAN
    /\ use_brvm \in BOOLEAN
    /\ all_symbols = <<>>
    /\ idx = 0
    /\ calls = <<>>
    /\ response = NoResponse
    /\ df_sika = EmptyFrame
    /\ df_brvm = EmptyFrame
    /\ df_combined = EmptyFrame
    /\ files = EmptyDict
    /\ log = {}
    /\ data_frames = EmptyDict
    /\ performances = EmptyDict
    /\ perf_df = EmptyDict
    /\ outputs = {}
    /\ trace = <<>>
    /\ boot = NoBoot

\* lines 229-232: the stock list, then the indices
GetAllStocksFrom(responses) ==
    /\ pc = "start"
    /\ \E resp \in responses :
          /\ all_symbols' =
                get_all_stocks(resp)
                \o [i \in 1..Len(indices) |-> [symbol |-> indices[i], name |-> indices[i]]]
          /\ log' = IF resp.kind = "network_error"
                    THEN {[level |-> "error", by |-> "get_all_stocks", symbol |-> <<>>]}
                    ELSE {}
    /\ idx' = 1
    /\ pc' = "sika"
    /\ UNCHANGED <<perf_df, outputs, trace, boot>>
    /\ UNCHANGED <<use_sika, use_brvm, calls, response, df_sika, df_brvm, df_combined,
                   files, data_frames, performances>>

\* lines 235-243: df_combined starts empty; the structured-API adapter is tried
ScrapeSikaFrom(responses) ==
    /\ pc = "sika"
    /\ IF use_sika
       THEN \E resp \in responses : \E df \in scrape_sika_finance(symbol, resp) :
               /\ response' = resp
               /\ df_sika' = df
               /\ df_combined' = IF ~IsEmpty(df) THEN df ELSE EmptyFrame
               /\ log' = log \cup SikaLog(symbol, resp, df)
               /\ calls' = Append(calls, "scrape_sika_finance")
               /\ trace' = trace \o Requests("sika", idx)
       ELSE /\ df_combined' = EmptyFrame
            /\ UNCHANGED <<response, df_sika, log, calls, trace>>
    /\ pc' = "brvm"
    /\ UNCHANGED <<perf_df, outputs, boot>>
    /\ UNCHANGED <<use_sika, use_brvm, all_symbols, idx, df_brvm, files, data_frames,
                   performances>>

\* the HTML-table adapter tried for every symbol, its result taking over
ScrapeBrvmAlways(responses) ==
    /\ pc = "brvm"
    /\ IF use_brvm
       THEN \E resp \in responses : \E df \in scrape_brvm_official(symbol, resp) :
               /\ response' = resp
               /\ df_brvm' = df
               /\ df_combined' = IF ~IsEmpty(df) THEN df ELSE df_combined
               /\ log' = log \cup BrvmLog(symbol, resp, df)
               /\ calls' = Append(calls, "scrape_brvm_official")
               /\ trace' = trace \o Requests("brvm", idx)
       ELSE UNCHANGED <<response, df_brvm, df_combined, log, calls, trace>>
    /\ pc' = "save"
    /\ UNCHANGED <<perf_df, outputs, boot>>
    /\ UNCHANGED <<use_sika, use_brvm, all_symbols, idx, df_sika, files, data_frames,
                   performances>>

\* lines 246-249: the HTML-table adapter is tried when nothing was found
ScrapeBrvmFrom(responses) ==
    /\ pc = "brvm"
    /\ IF use_brvm /\ IsEmpty(df_combined)
       THEN \E resp \in responses : \E df \in scrape_brvm_official(symbol, resp) :
               /\ response' = resp
               /\ df_brvm' = df
               /\ df_combined' = IF ~IsEmpty(df) THEN df ELSE df_combined
               /\ log' = log \cup BrvmLog(symbol, resp, df)
               /\ calls' = Append(calls, "scrape_brvm_official")
               /\ trace' = trace \o Requests("brvm", idx)
       ELSE UNCHANGED <<response, df_brvm, df_combined, log, calls, trace>>
    /\ pc' = "save"
    /\ UNCHANGED <<perf_df, outputs, boot>>
    /\ UNCHANGED <<use_sika, use_brvm, all_symbols, idx, df_sika, files, data_frames,
                   performances>>

\* the file written without looking at df_combined.empty
SaveAlways ==
    /\ pc = "save"
    /\ files' = Put(files, FileName(symbol), to_csv(df_combined))
    /\ log' = log \cup {IF ~IsEmpty(df_combined)
                        THEN [level |-> "info", by |-> "save", symbol |-> symbol]
                        ELSE [level |-> "warning", by |-> "save", symbol |-> symbol]}
    /\ trace' = Append(trace, [op |-> "save", idx |-> idx])
    /\ pc' = "sleep"
    /\ UNCHANGED <<perf_df, outputs, boot>>
    /\ UNCHANGED <<use_sika, use_brvm, all_symbols, idx, calls, response, df_sika,
                   df_brvm, df_combined, data_frames, performances>>

\* lines 252-257: the series is written, or its absence is reported
Save ==
    /\ pc = "save"
    /\ IF ~IsEmpty(df_combined)
       THEN /\ files' = Put(files, FileName(symbol), to_csv(df_combined))
            /\ log' = log \cup {[level |-> "info", by |-> "save", symbol |-> symbol]}
            /\ trace' = Append(trace, [op |-> "save", idx |-> idx])
       ELSE /\ files' = files
            /\ log' = log \cup {[level |-> "warning", by |-> "save", symbol |-> symbol]}
            /\ trace' = Append(trace, [op |-> "warning", idx |-> idx])
    /\ pc' = "sleep"
    /\ UNCHANGED <<perf_df, outputs, boot>>
    /\ UNCHANGED <<use_sika, use_brvm, all_symbols, idx, calls, response, df_sika,
                   df_brvm, df_combined, data_frames, performances>>

\* the loop left after its first turn
SleepAndStop ==
    /\ pc = "sleep"
    /\ pc' = "done"
    /\ idx' = idx
    /\ calls' = <<>>
    /\ trace' = Append(trace, [op |-> "sleep", idx |-> idx])
    /\ response' = NoResponse
    /\ df_sika' = EmptyFrame
    /\ df_brvm' = EmptyFrame
    /\ df_combined' = EmptyFrame
    /\ UNCHANGED <<perf_df, outputs, boot>>
    /\ UNCHANGED <<use_sika, use_brvm, all_symbols, files, log, data_frames, performances>>

\* line 260, then the next turn of the loop (or its end)
Sleep ==
    /\ pc = "sleep"
    /\ pc' = IF idx = Len(all_symbols) THEN "done" ELSE "sika"
    /\ idx' = IF idx = Len(all_symbols) THEN idx ELSE idx + 1
    /\ calls' = <<>>
    /\ trace' = Append(trace, [op |-> "sleep", idx |-> idx])
    /\ response' = NoResponse
    /\ df_sika' = EmptyFrame
    /\ df_brvm' = EmptyFrame
    /\ df_combined' = EmptyFrame
    /\ UNCHANGED <<perf_df, outputs, boot>>
    /\ UNCHANGED <<use_sika, use_brvm, all_symbols, files, log, data_frames, performances>>

\* create_dashboard.main: load_data, and the stop when nothing was loaded
LoadData ==
    /\ pc = "done"
    /\ \E m \in load_data(files) :
          /\ data_frames' = m
          /\ pc' = IF Truthy(m) THEN "loaded" ELSE "stopped"
    /\ log' = log \cup {[level |-> "error", by |-> "load_data", symbol |-> KeyOfFile(n)] :
                           n \in {f \in DOMAIN files : LoadRaises(files[f])}}
    /\ UNCHANGED <<perf_df, outputs, trace, boot>>
    /\ UNCHANGED <<use_sika, use_brvm, all_symbols, idx, calls, response, df_sika,
                   df_brvm, df_combined, files, performances>>

\* create_dashboard, lines 373-380: the performances of the loaded series
CalculatePerformances ==
    /\ pc = "loaded"
    /\ performances' = Performances(data_frames)
    /\ log' = log \cup {[level |-> "error", by |-> "create_dashboard", symbol |-> k] :
                           k \in {s \in DOMAIN data_frames : PerformanceRaises(data_frames[s])}}
    /\ pc' = "dashboard"
    /\ data_frames' = [k \in DOMAIN data_frames |-> Processed(data_frames[k])]
    /\ UNCHANGED <<perf_df, outputs, trace, boot>>
    /\ UNCHANGED <<use_sika, use_brvm, all_symbols, idx, calls, response, df_sika,
                   df_brvm, df_combined, files>>

\* perf_df['Secteur'] = perf_df.index.map(...), lines 178-180
WithSecteur(perf) ==
    [k \in DOMAIN perf |->
        [f \in DOMAIN perf[k] \cup {"Secteur"} |->
            IF f = "Secteur" THEN SectorOf(k) ELSE perf[k][f]]]

\* create_brvm_evolution_chart raises: the BRVM-Composite series is there and
\* has no Cloture column to plot
EvolutionRaises(frames) ==
    /\ BRVM_Composite \in DOMAIN frames
    /\ ~HasColumn(frames[BRVM_Composite], "Cloture")

DashboardFile == "brvm_dashboard.html"

\* create_dashboard, lines 383-560: the metrics table, the charts, the page.
\* With no performances the table has no column and sort_values('total_return')
\* of line 152 raises KeyError; nothing catches it and the script ends there.
CreateDashboard ==
    /\ pc = "dashboard"
    /\ IF performances = EmptyDict
       THEN /\ perf_df' = EmptyDict
            /\ pc' = "crashed"
            /\ outputs' = outputs
       ELSE /\ perf_df' = WithSecteur(performances)
            /\ IF EvolutionRaises(data_frames)
               THEN pc' = "crashed" /\ outputs' = outputs
               ELSE pc' = "written" /\ outputs' = outputs \cup {DashboardFile}
    /\ UNCHANGED <<use_sika, use_brvm, all_symbols, idx, calls, response, df_sika,
                   df_brvm, df_combined, files, log, data_frames, performances,
                   trace, boot>>

GetAllStocks == GetAllStocksFrom(StockResponses)

ScrapeSika == ScrapeSikaFrom(SmallSikaResponses)

ScrapeBrvm == ScrapeBrvmFrom(SmallBrvmResponses)

Next ==
    \/ GetAllStocks
    \/ ScrapeSika
    \/ ScrapeBrvm
    \/ Save
    \/ Sleep
    \/ LoadData
    \/ CalculatePerformances
    \/ CreateDashboard

Spec == Init /\ [][Next]_vars

\* a step of the pass
PassStep ==
    \/ GetAllStocks
    \/ ScrapeSika
    \/ ScrapeBrvm
    \/ Save
    \/ Sleep

\* every network call returns or fails and the loop goes on: a step of the
\* pass that can be taken is taken
SpecFair == Init /\ [][Next]_vars /\ WF_vars(PassStep)

\* ------------------------------------------ the sources, case by case
\* The last turn of the pass with every response of SikaResponses and
\* BrvmResponses, then the dashboard script; and the dashboard script started
\* on a data directory whose files were not written by the pass.

\* one text row of a file with the columns of BrvmColumns
CsvRow(date, open, close) ==
    [Date |-> date, Ouverture |-> open, Plus_Haut |-> open, Plus_Bas |-> open,
     Cloture |-> close, Volume |-> <<"1">>, Symbole |-> BRVM_30]

\* day 2 / day 1 with texts that are no numbers / no date and no closing
\* price / a date that is no date
CsvRows ==
    {CsvRow(ISO(2), <<"1", ".", "0">>, <<"1", ".", "5">>),
     CsvRow(ISO(1), <<"x">>, <<"x">>),
     CsvRow(<<>>, <<"1", ".", "0">>, <<>>),
     CsvRow(<<"x">>, <<"1", ".", "0">>, <<"1", ".", "0">>)}

NoCloture == SelectSeq(BrvmColumns, LAMBDA c : c # "Cloture")

\* a file with this header and these rows cut to the header's columns
CsvFile(header, rows) ==
    [columns |-> header,
     rows |-> [i \in 1..Len(rows) |-> [c \in Range(header) |-> rows[i][c]]]]

\* file contents: the full header, a header without Cloture, an empty file
CsvFiles ==
    {CsvFile(h, p) : h \in {BrvmColumns, NoCloture}, p \in SeqsUpTo(CsvRows)}
    \cup {CsvFile(<<>>, <<>>)}

\* the second file of a directory: two good rows, one good row, no row
OtherFiles ==
    LET good == CsvRow(ISO(2), <<"1", ".", "0">>, <<"1", ".", "5">>)
    IN  {CsvFile(BrvmColumns, <<good, good>>), CsvFile(BrvmColumns, <<good>>),
         CsvFile(BrvmColumns, <<>>)}

\* data directories: one file, or one file for each index
Directories ==
    {Put(EmptyDict, FileName(BRVM_30), f) : f \in CsvFiles}
    \cup {Put(Put(EmptyDict, FileName(BRVM_30), f), FileName(BRVM_Composite), g) :
            f \in CsvFiles, g \in OtherFiles}

\* the pass at its last symbol: the stock list could not be read and nothing
\* was found for the first index
InitLastTurn ==
    /\ pc = "sika"
    /\ use_sika = TRUE
    /\ use_brvm = TRUE
    /\ all_symbols = [i \in 1..Len(indices) |-> [symbol |-> indices[i], name |-> indices[i]]]
    /\ idx = Len(indices)
    /\ calls = <<>>
    /\ response = NoResponse
    /\ df_sika = EmptyFrame
    /\ df_brvm = EmptyFrame
    /\ df_combined = EmptyFrame
    /\ files = EmptyDict
    /\ log = {[level |-> "error", by |-> "get_all_stocks", symbol |-> <<>>],
              [level |-> "error", by |-> "scrape_sika_finance", symbol |-> indices[1]],
              [level |-> "error", by |-> "scrape_brvm_official", symbol |-> indices[1]],
              [level |-> "warning", by |-> "save", symbol |-> indices[1]]}
    /\ data_frames = EmptyDict
    /\ performances = EmptyDict
    /\ perf_df = EmptyDict
    /\ outputs = {}
    /\ trace = <<[op |-> "request", source |-> "sika", idx |-> 1],
                 [op |-> "request", source |-> "brvm", idx |-> 1],
                 [op |-> "warning", idx |-> 1],
                 [op |-> "sleep", idx |-> 1]>>
    /\ boot = NoBoot

\* the dashboard script started on a directory it did not write
InitDashboard ==
    /\ pc = "done"
    /\ use_sika = TRUE
    /\ use_brvm = TRUE
    /\ all_symbols = <<>>
    /\ idx = 0
    /\ calls = <<>>
    /\ response = NoResponse
    /\ df_sika = EmptyFrame
    /\ df_brvm = EmptyFrame
    /\ df_combined = EmptyFrame
    /\ files \in Directories
    /\ log = {}
    /\ data_frames = EmptyDict
    /\ performances = EmptyDict
    /\ perf_df = EmptyDict
    /\ outputs = {}
    /\ trace = <<>>
    /\ boot = NoBoot

InitSources == InitLastTurn \/ InitDashboard

ScrapeSikaAny == ScrapeSikaFrom(SikaResponses)

ScrapeBrvmAny == ScrapeBrvmFrom(BrvmResponses)

NextSources ==
    \/ ScrapeSikaAny
    \/ ScrapeBrvmAny
    \/ Save
    \/ Sleep
    \/ LoadData
    \/ CalculatePerformances
    \/ CreateDashboard

SpecSources == InitSources /\ [][NextSources]_vars

\* ------------------------------------------- the analytics, case by case
\* The dashboard script started on a data directory of series of up to
\* MaxRecords records, and on one series under each symbol of the sector
\* table.

\* closing prices 90.0, 95.0, 100.0, 110.0, 150.0 and a missing one
Closes == {900, 950, 1000, 1100, 1500, NaN}

\* the dates of n records: one day, consecutive days, every second day,
\* consecutive days with the last record undated
DatePatterns(n) ==
    {[i \in 1..n |-> 1], [i \in 1..n |-> i], [i \in 1..n |-> 2 * i - 1],
     [i \in 1..n |-> IF i = n THEN NaT ELSE i]}

\* the file of a series with these dates and closing prices
SeriesFile(dates, closes) ==
    CsvFile(BrvmColumns,
            [i \in 1..Len(dates) |->
                CsvRow(FormatDate(dates[i]), <<"1", ".", "0">>, FormatFloat(closes[i]))])

SeriesFiles ==
    UNION {{SeriesFile(d, c) : d \in DatePatterns(n), c \in [1..n -> Closes]} :
              n \in 0..MaxRecords}

Rising == SeriesFile(<<1, 2>>, <<1000, 1100>>)

Falling == SeriesFile(<<1, 2>>, <<1100, 1000>>)

Single == SeriesFile(<<1>>, <<1000>>)

SONATEL == <<"S", "O", "N", "A", "T", "E", "L">>

UNKNOWNCO == <<"U", "N", "K", "N", "O", "W", "N", "C", "O">>

\* the symbols of the sector table, the indices, a symbol of no sector
Symbols ==
    DOMAIN get_sector_classification \cup {BRVM_Composite, BRVM_30, BRVM, UNKNOWNCO}

SeriesDirectories ==
    {Put(EmptyDict, FileName(BRVM_30), f) : f \in SeriesFiles}
    \cup {Put(EmptyDict, FileName(x), Rising) : x \in Symbols}
    \cup {Put(Put(EmptyDict, FileName(SONATEL), f), FileName(BRVM_Composite), g) :
            f \in {Rising, Falling, Single},
            g \in {Rising, Single, CsvFile(NoCloture, <<Rising.rows[1], Rising.rows[2]>>)}}

InitAnalytics ==
    /\ pc = "done"
    /\ use_sika = TRUE
    /\ use_brvm = TRUE
    /\ all_symbols = <<>>
    /\ idx = 0
    /\ calls = <<>>
    /\ response = NoResponse
    /\ df_sika = EmptyFrame
    /\ df_brvm = EmptyFrame
    /\ df_combined = EmptyFrame
    /\ files \in SeriesDirectories
    /\ log = {}
    /\ data_frames = EmptyDict
    /\ performances = EmptyDict
    /\ perf_df = EmptyDict
    /\ outputs = {}
    /\ trace = <<>>
    /\ boot = NoBoot

NextAnalytics ==
    \/ LoadData
    \/ CalculatePerformances
    \/ CreateDashboard

SpecAnalytics == InitAnalytics /\ [][NextAnalytics]_vars

\* --------------------------------------------------------- the bootstrap
\* run_analysis.main: the directories, the scraper as a child process (the
\* pass above, run with its default arguments), the check of the data
\* directory, the notebook.  boot.at is the step main is at, boot.dirs the
\* directories that exist, boot.steps the steps that returned with their
\* result, boot.returncode the exit status of the scraper ("none" before it
\* ended), boot.launched whether Popen started the notebook.  files is the
\* content of the data directory, left there by an earlier run or empty.
BootSteps == <<"ensure_directory", "run_scraper", "check_data", "launch_notebook">>

Step(name, ok) == [name |-> name, ok |-> ok]

\* check_data: the data directory exists and holds at least one CSV file
check_data(dirs, dir) == "data" \in dirs /\ DOMAIN dir # {}

InitBootstrap ==
    /\ pc = "idle"
    /\ use_sika = TRUE
    /\ use_brvm = TRUE
    /\ all_symbols = <<>>
    /\ idx = 0
    /\ calls = <<>>
    /\ response = NoResponse
    /\ df_sika = EmptyFrame
    /\ df_brvm = EmptyFrame
    /\ df_combined = EmptyFrame
    /\ log = {}
    /\ data_frames = EmptyDict
    /\ performances = EmptyDict
    /\ perf_df = EmptyDict
    /\ outputs = {}
    /\ trace = <<>>
    /\ \E dirs \in SUBSET {"data", "notebooks"} :
          /\ boot = [at |-> "ensure_directory", dirs |-> dirs, steps |-> <<>>,
                     returncode |-> "none", launched |-> FALSE]
          /\ files \in IF "data" \in dirs
                       THEN {EmptyDict, Put(EmptyDict, FileName(UNKNOWNCO), Rising)}
                       ELSE {EmptyDict}

\* main, lines 95-96: both directories exist afterwards
EnsureDirectories ==
    /\ boot.at = "ensure_directory"
    /\ boot' = [boot EXCEPT !.at = "run_scraper",
                            !.dirs = @ \cup {"data", "notebooks"},
                            !.steps = Append(@, Step("ensure_directory", TRUE))]
    /\ UNCHANGED <<pc, use_sika, use_brvm, all_symbols, idx, calls, response, df_sika,
                   df_brvm, df_combined, files, log, data_frames, performances,
                   perf_df, outputs, trace>>

\* run_scraper, lines 37-45: without the script it returns False, else the
\* child process starts
RunScraper ==
    /\ boot.at = "run_scraper"
    /\ \E script_exists \in BOOLEAN :
          IF script_exists
          THEN /\ boot' = [boot EXCEPT !.at = "scraping"]
               /\ pc' = "start"
          ELSE /\ boot' = [boot EXCEPT !.at = "end",
                                       !.steps = Append(@, Step("run_scraper", FALSE))]
               /\ pc' = pc
    /\ UNCHANGED <<use_sika, use_brvm, all_symbols, idx, calls, response, df_sika,
                   df_brvm, df_combined, files, log, data_frames, performances,
                   perf_df, outputs, trace>>

\* run_scraper, lines 45-47: the child process ended with status 0
ScraperReturns ==
    /\ boot.at = "scraping"
    /\ pc = "done"
    /\ boot' = [boot EXCEPT !.at = "check_data", !.returncode = 0,
                            !.steps = Append(@, Step("run_scraper", TRUE))]
    /\ UNCHANGED <<pc, use_sika, use_brvm, all_symbols, idx, calls, response, df_sika,
                   df_brvm, df_combined, files, log, data_frames, performances,
                   perf_df, outputs, trace>>

\* run_scraper, lines 48-50: the child process ended with another status
\* (CalledProcessError), wherever the pass was
ScraperFails ==
    /\ boot.at = "scraping"
    /\ pc # "done"
    /\ pc' = "killed"
    /\ boot' = [boot EXCEPT !.at = "end", !.returncode = 1,
                            !.steps = Append(@, Step("run_scraper", FALSE))]
    /\ UNCHANGED <<use_sika, use_brvm, all_symbols, idx, calls, response, df_sika,
                   df_brvm, df_combined, files, log, data_frames, performances,
                   perf_df, outputs, trace>>

\* main, lines 104-106
CheckData ==
    /\ boot.at = "check_data"
    /\ boot' = [boot EXCEPT !.at = IF check_data(boot.dirs, files)
                                   THEN "launch_notebook" ELSE "end",
                            !.steps = Append(@, Step("check_data",
                                                     check_data(boot.dirs, files)))]
    /\ UNCHANGED <<pc, use_sika, use_brvm, all_symbols, idx, calls, response, df_sika,
                   df_brvm, df_combined, files, log, data_frames, performances,
                   perf_df, outputs, trace>>

\* launch_notebook, lines 75-88: the notebook file is missing, Popen raises,
\* or Popen starts jupyter
LaunchNotebook ==
    /\ boot.at = "launch_notebook"
    /\ \E outcome \in {"missing", "raises", "started"} :
          boot' = [boot EXCEPT !.at = "end",
                               !.launched = (outcome = "started"),
                               !.steps = Append(@, Step("launch_notebook",
                                                        outcome = "started"))]
    /\ UNCHANGED <<pc, use_sika, use_brvm, all_symbols, idx, calls, response, df_sika,
                   df_brvm, df_combined, files, log, data_frames, performances,
                   perf_df, outputs, trace>>

NextBootstrap ==
    \/ EnsureDirectories
    \/ RunScraper
    \/ GetAllStocks
    \/ ScrapeSika
    \/ ScrapeBrvm
    \/ Save
    \/ Sleep
    \/ ScraperReturns
    \/ ScraperFails
    \/ CheckData
    \/ LaunchNotebook

SpecBootstrap == InitBootstrap /\ [][NextBootstrap]_vars

\* ------------------------------------------------------------ properties
LastCall == IF calls = <<>> THEN "none" ELSE calls[Len(calls)]

Called(adapter) == \E i \in 1..Len(calls) : calls[i] = adapter

SaveWarning(sym) == [level |-> "warning", by |-> "save", symbol |-> sym]

\* the file of the current symbol exists
Saved == FileName(symbol) \in DOMAIN files

\* C1: with both sources enabled, the structured-API adapter is called first
\* for every symbol, the HTML-table adapter is called exactly when the
\* structured-API result is empty, and the series written is the result of
\* one adapter alone (the other one's result being empty), never a merge.
C1_FallbackOrder ==
    (use_sika /\ use_brvm /\ pc \in {"brvm", "save", "sleep"}) =>
        /\ calls # <<>> /\ calls[1] = "scrape_sika_finance"
        /\ pc = "brvm" => calls = <<"scrape_sika_finance">>
        /\ pc \in {"save", "sleep"} =>
              /\ Called("scrape_brvm_official") <=> IsEmpty(df_sika)
              /\ Len(calls) <= 2
              /\ \/ df_combined = df_sika /\ IsEmpty(df_brvm)
                 \/ df_combined = df_brvm /\ IsEmpty(df_sika)
        /\ (pc = "sleep" /\ ~IsEmpty(df_combined)) =>
              /\ Saved
              /\ files[FileName(symbol)] \in {to_csv(df_sika), to_csv(df_brvm)}

\* C1 witness: the fallback took place and its series was written
C1_Witness ==
    /\ use_sika /\ use_brvm /\ pc = "sleep"
    /\ calls = <<"scrape_sika_finance", "scrape_brvm_official">>
    /\ ~IsEmpty(df_brvm)
    /\ Saved

\* C2: when the structured-API adapter fails or returns nothing and the
\* HTML-table adapter returns N > 0 records, the series resolved and written
\* for the symbol is these N records: same columns, same order, and every
\* value read back from the file is the adapter's value.
C2_SecondaryUnmodified ==
    (pc = "sleep" /\ Called("scrape_sika_finance") /\ IsEmpty(df_sika) /\ ~IsEmpty(df_brvm)) =>
        /\ df_combined = df_brvm
        /\ Saved
        /\ files[FileName(symbol)].columns = df_brvm.columns
        /\ Len(files[FileName(symbol)].rows) = Len(df_brvm.rows)
        /\ LoadRows(files[FileName(symbol)]) = df_brvm.rows

\* C2 witness: a failed primary request, two records from the secondary
C2_Witness ==
    /\ pc = "sleep"
    /\ calls = <<"scrape_sika_finance", "scrape_brvm_official">>
    /\ IsEmpty(df_sika)
    /\ Len(df_brvm.rows) = 2
    /\ Saved

\* no value of the frame is an exception that escaped
NoRaiseIn(df) ==
    \A i \in 1..Len(df.rows) : \A c \in DOMAIN df.rows[i] :
        c # "Symbole" => df.rows[i][c] # Raise

\* the request or the decoding of the structured-API response fails
SikaInternalError(resp) ==
    \/ resp.kind \in {"network_error", "http_error", "malformed"}
    \/ /\ resp.kind = "json"
       /\ Len(resp.intraday) > 0
       /\ \/ \A i \in 1..Len(resp.intraday) : "date" \notin DOMAIN resp.intraday[i]
          \/ \E i \in 1..Len(resp.intraday) :
                ToDatetime(SikaValue(resp.intraday[i], "date")) = Raise

\* the request fails, or a row of six cells holds a date or a number that
\* cannot be parsed
BrvmInternalError(resp) ==
    \/ resp.kind \in {"network_error", "http_error"}
    \/ /\ resp.kind = "html"
       /\ \E i \in 1..Len(resp.rows) :
             /\ Len(resp.rows[i]) >= 6
             /\ \/ Strptime(Strip(resp.rows[i][1])) = Raise
                \/ \E j \in 2..5 : BrvmPrice(resp.rows[i][j]) = Raise
                \/ BrvmVolume(resp.rows[i][6]) = Raise

\* C3: whatever the request meets (network error, HTTP error status,
\* malformed JSON or markup, missing fields, unparseable date or number), both
\* adapters return a frame without raising, and the frame is empty whenever
\* an error occurred inside.
C3_AdaptersNeverRaise ==
    /\ pc = "sika" => \A resp \in SikaResponses : scrape_sika_finance(symbol, resp) # {}
    /\ pc = "brvm" => \A resp \in BrvmResponses : scrape_brvm_official(symbol, resp) # {}
    /\ (pc = "brvm" /\ LastCall = "scrape_sika_finance") =>
          /\ NoRaiseIn(df_sika)
          /\ SikaInternalError(response) => IsEmpty(df_sika)
    /\ (pc = "save" /\ LastCall = "scrape_brvm_official") =>
          /\ NoRaiseIn(df_brvm)
          /\ BrvmInternalError(response) => IsEmpty(df_brvm)

\* C3 witness: the HTML-table adapter has returned from a table with one good
\* row and one row that cannot be parsed
C3_Witness ==
    /\ pc = "save"
    /\ LastCall = "scrape_brvm_official"
    /\ response.kind = "html"
    /\ Len(response.rows) = 2
    /\ Strptime(Strip(response.rows[1][1])) # Raise
    /\ BrvmInternalError(response)
    /\ IsEmpty(df_brvm)

\* C4: when every enabled adapter returned an empty series for a symbol, the
\* save step leaves the data directory as it is, records a warning for the
\* symbol and goes on; the loop then moves to the next symbol.
C4_NoDataSkips ==
    [][/\ (/\ pc = "save"
           /\ use_sika => IsEmpty(df_sika)
           /\ use_brvm => IsEmpty(df_brvm))
          => (files' = files /\ SaveWarning(symbol) \in log' /\ pc' = "sleep")
       /\ (pc = "sleep" /\ idx < Len(all_symbols))
          => (pc' = "sika" /\ idx' = idx + 1 /\ files' = files)]_vars

\* C4 witness: the pass is at a later symbol after two empty answers for the
\* one before, which has a warning and no file
C4_Witness ==
    /\ pc = "brvm"
    /\ idx > 1
    /\ use_sika /\ use_brvm
    /\ SaveWarning(all_symbols[idx - 1].symbol) \in log
    /\ FileName(all_symbols[idx - 1].symbol) \notin DOMAIN files

\* the dated records of a frame have pairwise different dates
OnePerDate(df) ==
    \A i, j \in 1..Len(df.rows) :
        (i # j /\ df.rows[i].Date # NaT) => df.rows[i].Date # df.rows[j].Date

\* C5 (as claimed): a series returned by an adapter has at most one record
\* per trading date, and of the source rows of one date the last one is the
\* record kept.
C5_OneRecordPerDate ==
    /\ OnePerDate(df_sika)
    /\ OnePerDate(df_brvm)
    /\ (pc = "save" /\ LastCall = "scrape_brvm_official" /\ ~IsEmpty(df_brvm)) =>
          LET trs == WideRows(response.rows)
          IN  \A i \in 1..Len(trs) :
                 (\A j \in (i + 1)..Len(trs) : trs[j][1] # trs[i][1])
                    => \E k \in 1..Len(df_brvm.rows) : df_brvm.rows[k] = BrvmRow(trs[i], symbol)

\* for all records, the dated ones are in ascending order of date
Ascending(rows) ==
    \A i, j \in 1..Len(rows) :
        (i < j /\ rows[i].Date # NaT /\ rows[j].Date # NaT) => rows[i].Date <= rows[j].Date

\* C6: every series returned by an adapter and every series returned by
\* load_data is in ascending order of date, whatever the order of the rows in
\* the payload, the table or the file.
C6_AscendingDates ==
    /\ Ascending(df_sika.rows)
    /\ Ascending(df_brvm.rows)
    /\ \A k \in DOMAIN data_frames : Ascending(data_frames[k].rows)

\* C6 witness: a file with day 2 before day 1 has been loaded
C6_Witness ==
    /\ pc = "loaded"
    /\ \E n \in DOMAIN files :
          /\ Len(files[n].rows) = 2
          /\ "Date" \in Range(files[n].columns)
          /\ files[n].rows[1].Date = ISO(2)
          /\ files[n].rows[2].Date = ISO(1)
          /\ KeyOfFile(n) \in DOMAIN data_frames
          /\ data_frames[KeyOfFile(n)].rows[1].Date = 1
          /\ data_frames[KeyOfFile(n)].rows[2].Date = 2

HasClose(df) ==
    \A i \in 1..Len(df.rows) :
        "Cloture" \in DOMAIN df.rows[i] => df.rows[i].Cloture \notin {NaN, StrVal}

\* C7 (as claimed): every record of a series returned by an adapter or by
\* load_data has a closing price; a row without one is dropped.
C7_ClosePresent ==
    /\ HasClose(df_sika)
    /\ HasClose(df_brvm)
    /\ \A k \in DOMAIN data_frames : HasClose(data_frames[k])

\* a row cut to the columns of the persisted series
Canonical(row) == [c \in Range(BrvmColumns) |-> row[c]]

CanonicalRows(rows) == [i \in 1..Len(rows) |-> Canonical(rows[i])]

\* C8 (as claimed): a series without missing closing price that the pass has
\* just saved is read back by load_data as the same sequence of records.
C8_RoundTrip ==
    (pc = "sleep" /\ ~IsEmpty(df_combined) /\ HasClose(df_combined)) =>
        \A m \in load_data(files) :
            /\ KeyOfFile(FileName(symbol)) \in DOMAIN m
            /\ CanonicalRows(m[KeyOfFile(FileName(symbol))].rows)
                  = CanonicalRows(df_combined.rows)

C10_InsufficientSeries ==
    /\ \A k \in DOMAIN data_frames :
          Len(data_frames[k].rows) < 2 =>
              /\ ~PerformanceRaises(data_frames[k])
              /\ ~Truthy(calculate_performance(data_frames[k]))
    /\ pc = "dashboard" =>
          \A k \in DOMAIN data_frames :
              /\ Len(data_frames[k].rows) < 2 => k \notin DOMAIN performances
              /\ (Len(data_frames[k].rows) >= 2 /\ HasColumn(data_frames[k], "Cloture")) =>
                    /\ k \in DOMAIN performances
                    /\ performances[k].initial_price = data_frames[k].rows[1].Cloture
                    /\ performances[k].start_date = MinDate(data_frames[k])

\* C10 witness: the performances were calculated for one series of two
\* records beside a series with one record or none
C10_Witness ==
    /\ pc = "dashboard"
    /\ \E k \in DOMAIN data_frames : Len(data_frames[k].rows) = 0
    /\ \E k \in DOMAIN data_frames :
          Len(data_frames[k].rows) = 2 /\ k \in DOMAIN performances

\* the run is past the performance loop of create_dashboard
Calculated == pc \in {"dashboard", "written", "crashed"}

\* the closing prices of a series, in its order
ClosesOf(df) == Column(df, "Cloture")

AllPresent(c) == \A i \in 1..Len(c) : c[i] # NaN

C12_ZeroDuration ==
    Calculated =>
        \A k \in DOMAIN performances :
            LET m == performances[k]
            IN  /\ m.duration_days = 0 => m.annual_return = [num |-> 0, den |-> 1]
                /\ "pow" \in DOMAIN m.annual_return =>
                      /\ m.duration_days > 0
                      /\ m.annual_return.inverse_years.num > 0

\* C12 witness: metrics of a series whose records share one date and whose
\* first and last closing prices differ
C12_Witness ==
    /\ Calculated
    /\ \E k \in DOMAIN performances :
          /\ performances[k].duration_days = 0
          /\ performances[k].initial_price # NaN
          /\ performances[k].final_price # NaN
          /\ performances[k].initial_price # performances[k].final_price
          /\ performances[k].annual_return = [num |-> 0, den |-> 1]

\* the same closing price, present, in all records
ConstantClose(df) ==
    LET c == ClosesOf(df)
    IN  AllPresent(c) /\ \A i \in 1..Len(c) : c[i] = c[1]

\* C13 (as claimed): for every series of at least 2 records, exactly 2
\* included, with the same closing price in all records, volatility = 0 and
\* sharpe_ratio = 0.
C13_ConstantClose ==
    Calculated =>
        \A k \in DOMAIN performances :
            ConstantClose(data_frames[k]) =>
                /\ performances[k].volatility = [num |-> 0, den |-> 1]
                /\ performances[k].sharpe_ratio = [num |-> 0, den |-> 1]

\* the highest of the closing prices of records 2..i
RECURSIVE PeakFromSecond(_, _)
PeakFromSecond(c, i) ==
    IF i = 2 THEN c[2]
    ELSE IF c[i] > PeakFromSecond(c, i - 1) THEN c[i] ELSE PeakFromSecond(c, i - 1)

\* C14: max_drawdown is 100 times the lowest of cumulative index / running
\* maximum - 1, the index starting at the first valid return: with every
\* closing price present, the lowest over the records i >= 2 of
\* close[i] / max(close[2..i]) - 1; closes 100, 150, 90 give -40% at the
\* third record and max_drawdown = -40.
C14_MaxDrawdown ==
    Calculated =>
        \A k \in DOMAIN performances :
            LET c == ClosesOf(data_frames[k])
                md == performances[k].max_drawdown
            IN  /\ AllPresent(c) =>
                      /\ md.den > 0
                      /\ \E i \in 2..Len(c) :
                            md.num * PeakFromSecond(c, i)
                                = md.den * 100 * (c[i] - PeakFromSecond(c, i))
                      /\ \A i \in 2..Len(c) :
                            md.num * PeakFromSecond(c, i)
                                <= md.den * 100 * (c[i] - PeakFromSecond(c, i))
                /\ c = <<1000, 1500, 900>> =>
                      /\ md = [num |-> 0 - 40, den |-> 1]
                      /\ data_frames[k].rows[3].Drawdown = [num |-> 0 - 2, den |-> 5]

\* C14 witness: the metrics of a series closing at 100.0, 150.0, 90.0
C14_Witness ==
    /\ Calculated
    /\ \E k \in DOMAIN performances :
          /\ ClosesOf(data_frames[k]) = <<1000, 1500, 900>>
          /\ performances[k].max_drawdown = [num |-> 0 - 40, den |-> 1]

\* C15: calculate_performance is deterministic, also on a series it has
\* already processed: a second call on the series object left by the first
\* call returns the metrics record the first call returned.
C15_Deterministic ==
    Calculated =>
        \A k \in DOMAIN data_frames :
            /\ ~PerformanceRaises(data_frames[k])
            /\ Len(data_frames[k].rows) >= 2
            => /\ k \in DOMAIN performances
               /\ calculate_performance(data_frames[k]) = performances[k]

\* C15 witness: metrics of a series of 3 records that now carries the derived
\* columns of the first call
C15_Witness ==
    /\ Calculated
    /\ \E k \in DOMAIN performances :
          /\ Len(data_frames[k].rows) = 3
          /\ HasColumn(data_frames[k], "Drawdown")
          /\ performances[k].max_drawdown # [num |-> 0, den |-> 1]

\* the labels a symbol can get
SectorLabels == {sectors[i].sector : i \in 1..Len(sectors)} \cup {"Indice", "Autres"}

\* the sectors of the table that list the symbol
SectorsListing(x) == {i \in 1..Len(sectors) : x \in Range(sectors[i].symbols)}

\* C16: sector classification is a total function into the fixed label set:
\* a symbol of the sector table gets the sector that lists it (SONATEL gets
\* 'Services publics'), any other symbol beginning with 'BRVM' gets 'Indice',
\* every other symbol gets 'Autres'; no symbol is listed under two sectors.
C16_SectorClassification ==
    /\ \A i, j \in 1..Len(sectors) :
          i # j => Range(sectors[i].symbols) \cap Range(sectors[j].symbols) = {}
    /\ \A k \in DOMAIN perf_df :
          LET label == perf_df[k].Secteur
          IN  /\ label \in SectorLabels
              /\ \A i \in SectorsListing(k) : label = sectors[i].sector
              /\ k = SONATEL => label = "Services publics"
              /\ (SectorsListing(k) = {} /\ Len(k) >= 4 /\ SubSeq(k, 1, 4) = BRVM)
                    => label = "Indice"
              /\ (SectorsListing(k) = {} /\ ~(Len(k) >= 4 /\ SubSeq(k, 1, 4) = BRVM))
                    => label = "Autres"
              /\ k = BRVM_30 => label = "Indice"
              /\ k = UNKNOWNCO => label = "Autres"

\* C16 witness: the metrics table holds SONATEL and BRVM-Composite with their
\* sector labels
C16_Witness ==
    /\ pc = "written"
    /\ SONATEL \in DOMAIN perf_df
    /\ BRVM_Composite \in DOMAIN perf_df
    /\ perf_df[SONATEL].Secteur = "Services publics"
    /\ perf_df[BRVM_Composite].Secteur = "Indice"

\* C17 (as claimed): whatever the series given to create_dashboard, the run
\* reaches its end and writes its page.
C17_ReportProduced ==
    pc \in {"written", "crashed"} => DashboardFile \in outputs

\* C18 (as claimed): in the HTML-table adapter a row that cannot be parsed is
\* dropped and every row of the table that can be parsed is returned.
C18_BadRowDropped ==
    (pc = "save" /\ LastCall = "scrape_brvm_official" /\ response.kind = "html") =>
        LET trs == WideRows(response.rows)
        IN  \A i \in 1..Len(trs) :
                ~RowRaises(BrvmRow(trs[i], symbol))
                    => \E k \in 1..Len(df_brvm.rows) : df_brvm.rows[k] = BrvmRow(trs[i], symbol)

\* the number a price cell of the source locale stands for: blanks between
\* the thousands, a comma before the decimals; missing for an empty cell
LocalePrice(cell) ==
    LET t == Replace(Replace(Strip(cell), " ", <<>>), ",", <<".">>)
    IN  IF t = <<>> THEN NaN ELSE PyFloat(t)

\* a row of six cells with a date, a volume and four price cells of the locale
LocaleRow(cols) ==
    /\ Len(cols) >= 6
    /\ Strptime(Strip(cols[1])) # Raise
    /\ BrvmVolume(cols[6]) # Raise
    /\ \A j \in 2..5 : LocalePrice(cols[j]) # Raise

\* C19 (as claimed): in the HTML-table adapter every price cell written in the
\* source locale is parsed to its number and an empty price cell gives a
\* missing value: a table of such rows is returned with these values.
C19_LocalePrices ==
    (/\ pc = "save" /\ LastCall = "scrape_brvm_official" /\ response.kind = "html"
     /\ \A i \in 1..Len(response.rows) : LocaleRow(response.rows[i])) =>
        \A i \in 1..Len(response.rows) :
            \E k \in 1..Len(df_brvm.rows) :
                /\ df_brvm.rows[k].Ouverture = LocalePrice(response.rows[i][2])
                /\ df_brvm.rows[k].Plus_Haut = LocalePrice(response.rows[i][3])
                /\ df_brvm.rows[k].Plus_Bas = LocalePrice(response.rows[i][4])
                /\ df_brvm.rows[k].Cloture = LocalePrice(response.rows[i][5])

\* load_data has returned
Loaded == pc \in {"loaded", "stopped", "dashboard", "written", "crashed"}

\* the file cannot be read as a series: no Date column, or a date that is none
Unreadable(file) ==
    \/ ~HasColumn(file, "Date")
    \/ \E i \in 1..Len(file.rows) : ToDatetime(file.rows[i].Date) = Raise

\* the value of a text in a numeric column: its number, missing otherwise
Coerced(text) == IF PyFloat(text) = Raise THEN NaN ELSE PyFloat(text)

\* C20: load_data never aborts on bad content: every file that can be read is
\* returned with all its rows, a text that is no number in a numeric column
\* being a missing value; a file that cannot be read is skipped and the
\* other files are still returned.
C20_LoadNeverAborts ==
    Loaded =>
        \A n \in DOMAIN files :
            IF Unreadable(files[n])
            THEN /\ (\A o \in DOMAIN files : KeyOfFile(o) = KeyOfFile(n) => Unreadable(files[o]))
                       => KeyOfFile(n) \notin DOMAIN data_frames
                 /\ [level |-> "error", by |-> "load_data", symbol |-> KeyOfFile(n)] \in log
            ELSE /\ KeyOfFile(n) \in DOMAIN data_frames
                 /\ (\A o \in DOMAIN files : KeyOfFile(o) = KeyOfFile(n) => o = n) =>
                       LET df == data_frames[KeyOfFile(n)]
                       IN  /\ Len(df.rows) = Len(files[n].rows)
                           /\ \A i \in 1..Len(files[n].rows) :
                                 \E j \in 1..Len(df.rows) :
                                     \A c \in NumericColumns \cap Range(files[n].columns) :
                                         df.rows[j][c] = Coerced(files[n].rows[i][c])

\* C20 witness: of two files the one with a date that is none was skipped and
\* the other one loaded
C20_Witness ==
    /\ Loaded
    /\ \E n, o \in DOMAIN files :
          /\ Unreadable(files[n])
          /\ Len(files[n].rows) > 0
          /\ ~Unreadable(files[o])
          /\ DOMAIN data_frames = {KeyOfFile(o)}
          /\ Len(data_frames[KeyOfFile(o)].rows) = 2

\* the positions of the trace with a request
RequestsAt == {k \in 1..Len(trace) : trace[k].op = "request"}

\* C21 (as claimed): between any two successive requests to a per-symbol
\* endpoint of the pass a sleep has completed.
C21_DelayBetweenRequests ==
    \A i, j \in RequestsAt :
        i < j => \E k \in (i + 1)..(j - 1) : trace[k].op = "sleep"

\* the requests sent to a source for the symbol at position i of the universe
RequestsFor(source, i) ==
    {k \in RequestsAt : trace[k].source = source /\ trace[k].idx = i}

\* C22: no request is retried: during a pass the symbol at each position of
\* the universe causes at most one request to the structured-API source and
\* at most one to the HTML-table source, whatever fails, and each call of an
\* adapter has sent exactly one request.
C22_NoRetry ==
    /\ \A i \in 1..Len(all_symbols) : \A source \in {"sika", "brvm"} :
          Cardinality(RequestsFor(source, i)) <= 1
    /\ pc \in {"sika", "brvm", "save", "sleep"} =>
          Cardinality({k \in RequestsAt : trace[k].idx = idx}) = Len(calls)

\* C22 witness: both requests for a symbol have failed and were sent once
C22_Witness ==
    /\ pc = "save"
    /\ calls = <<"scrape_sika_finance", "scrape_brvm_official">>
    /\ response.kind = "network_error"
    /\ [level |-> "error", by |-> "scrape_sika_finance", symbol |-> symbol] \in log
    /\ Cardinality(RequestsFor("sika", idx)) = 1
    /\ Cardinality(RequestsFor("brvm", idx)) = 1

\* the events of the trace for position i, in order
EventsOf(i) == SelectSeq(trace, LAMBDA ev : ev.idx = i)

\* the turn of the loop for position i is complete: its requests (the
\* structured-API one first), then the save or the warning, then the sleep
TurnComplete(i) ==
    LET ev == EventsOf(i)
        n == Len(ev)
    IN  /\ n >= 2
        /\ ev[n].op = "sleep"
        /\ ev[n - 1].op \in {"save", "warning"}
        /\ \A k \in 1..(n - 2) : ev[k].op = "request"
        /\ n <= 4
        /\ n = 4 => ev[1].source = "sika" /\ ev[2].source = "brvm"
        /\ ev[n - 1].op = "save" => FileName(all_symbols[i].symbol) \in DOMAIN files
        /\ ev[n - 1].op = "warning" => SaveWarning(all_symbols[i].symbol) \in log

\* the pass is over: every position of the universe had its turn, one after
\* the other, and the universe is the listed stocks followed by the indices
PassComplete ==
    /\ pc = "done"
    /\ Len(all_symbols) >= Len(indices)
    /\ \A i \in 1..Len(indices) :
          all_symbols[Len(all_symbols) - Len(indices) + i].symbol = indices[i]
    /\ \A i \in 1..Len(all_symbols) : TurnComplete(i)
    /\ \A k, l \in 1..Len(trace) : k < l => trace[k].idx <= trace[l].idx

\* C23: a pass whose network calls all return or fail terminates, having
\* taken every symbol of the universe (the listed stocks, then BRVM-Composite
\* and BRVM-30) exactly once and one after the other, each with a saved file
\* or a recorded warning before the next one is started.
C23_PassTerminates == (pc = "start") ~> PassComplete

\* C23 witness: the pass is over for a listed stock and the two indices, with
\* a file saved and a warning recorded
C23_Witness ==
    /\ PassComplete
    /\ Len(all_symbols) = Len(indices) + 1
    /\ \E k \in 1..Len(trace) : trace[k].op = "save"
    /\ \E k \in 1..Len(trace) : trace[k].op = "warning"

\* the highest of the closing prices of records 1..i
RECURSIVE PeakFromFirst(_, _)
PeakFromFirst(c, i) ==
    IF i = 1 THEN c[1]
    ELSE IF c[i] > PeakFromFirst(c, i - 1) THEN c[i] ELSE PeakFromFirst(c, i - 1)

\* C24 (as claimed): max_drawdown is the largest decline of the closing price
\* from its running peak, the first record included in the peak:
\* 100 * min over j of close[j] / max(close[1..j]) - 1; closes 100, 90, 95
\* give -10.
C24_PeakIncludesFirst ==
    Calculated =>
        \A k \in DOMAIN performances :
            LET c == ClosesOf(data_frames[k])
                md == performances[k].max_drawdown
            IN  /\ AllPresent(c) =>
                      /\ md.den > 0
                      /\ \E j \in 1..Len(c) :
                            md.num * PeakFromFirst(c, j)
                                = md.den * 100 * (c[j] - PeakFromFirst(c, j))
                      /\ \A j \in 1..Len(c) :
                            md.num * PeakFromFirst(c, j)
                                <= md.den * 100 * (c[j] - PeakFromFirst(c, j))
                /\ c = <<1000, 900, 950>> => md = [num |-> 0 - 10, den |-> 1]

\* C25 (as claimed): the charts and the table leave the metrics table as
\* create_dashboard built it, the sector label being kept elsewhere.
C25_MetricsNotMutated ==
    pc = "written" =>
        /\ DOMAIN perf_df = DOMAIN performances
        /\ \A k \in DOMAIN perf_df : perf_df[k] = performances[k]

\* C28 (as claimed): the prices reported match the dates reported:
\* initial_price is the closing price of a record dated start_date and
\* final_price the closing price of a record dated end_date, also for files
\* with rows out of order or with a missing date.
C28_PricesMatchDates ==
    Calculated =>
        \A k \in DOMAIN performances :
            LET rows == data_frames[k].rows
                m == performances[k]
            IN  /\ \E i \in 1..Len(rows) :
                      rows[i].Date = m.start_date /\ rows[i].Cloture = m.initial_price
                /\ \E i \in 1..Len(rows) :
                      rows[i].Date = m.end_date /\ rows[i].Cloture = m.final_price

\* C29: calculate_performance changes the series it is given only by adding
\* (or overwriting) the columns Rendement, Cumul and Drawdown: the records,
\* their order and the values of every other column stay, and a series of
\* fewer than 2 records is left as it was.
C29_OnlyDerivedColumns ==
    [][(pc = "loaded" /\ pc' = "dashboard") =>
          /\ DOMAIN data_frames' = DOMAIN data_frames
          /\ \A k \in DOMAIN data_frames :
                LET before == data_frames[k]
                    after == data_frames'[k]
                IN  /\ Len(after.rows) = Len(before.rows)
                    /\ Range(after.columns) \subseteq Range(before.columns) \cup DerivedColumns
                    /\ SubSeq(after.columns, 1, Len(before.columns)) = before.columns
                    /\ \A i \in 1..Len(before.rows) :
                          \A c \in Range(before.columns) \ DerivedColumns :
                              after.rows[i][c] = before.rows[i][c]
                    /\ Len(before.rows) < 2 => after = before]_vars

\* C29 witness: the performance loop has run over a series of two records,
\* which got the three columns, and a series of one record
C29_Witness ==
    /\ pc = "dashboard"
    /\ \E k, l \in DOMAIN data_frames :
          /\ Len(data_frames[k].rows) = 2
          /\ DerivedColumns \subseteq Range(data_frames[k].columns)
          /\ data_frames[k].rows[2].Volume = 10
          /\ Len(data_frames[l].rows) = 1
          /\ data_frames[l].columns = BrvmColumns

\* the closing prices never decrease from one record to the next
NeverDecreasing(c) == \A i \in 1..(Len(c) - 1) : c[i] <= c[i + 1]

\* C30: for every series of at least 2 records with strictly positive closing
\* prices max_drawdown is never positive, and it is 0 when the closing prices
\* never decrease.
C30_DrawdownNotPositive ==
    Calculated =>
        \A k \in DOMAIN performances :
            LET c == ClosesOf(data_frames[k])
                md == performances[k].max_drawdown
            IN  (AllPresent(c) /\ \A i \in 1..Len(c) : c[i] > 0) =>
                    /\ md.den > 0
                    /\ md.num <= 0
                    /\ NeverDecreasing(c) => md.num = 0

\* C30 witness: metrics of a series of 3 records with rising closing prices
\* and of drawdown 0
C30_Witness ==
    /\ Calculated
    /\ \E k \in DOMAIN performances :
          /\ ClosesOf(data_frames[k]) = <<900, 1000, 1500>>
          /\ performances[k].max_drawdown = [num |-> 0, den |-> 1]

\* the positions of the universe whose series the pass has saved
SavedPositions == {trace[k].idx : k \in {j \in 1..Len(trace) : trace[j].op = "save"}}

\* C27 (as claimed): the symbol survives the file name: every series the pass
\* saved and load_data could read is returned under the symbol it was saved
\* for, and series saved for distinct symbols are returned under distinct keys.
C27_SymbolRoundTrip ==
    Loaded =>
        /\ \A i \in SavedPositions :
              ~Unreadable(files[FileName(all_symbols[i].symbol)]) =>
                  all_symbols[i].symbol \in DOMAIN data_frames
        /\ \A i, j \in SavedPositions :
              all_symbols[i].symbol # all_symbols[j].symbol =>
                  KeyOfFile(FileName(all_symbols[i].symbol))
                      # KeyOfFile(FileName(all_symbols[j].symbol))

\* the bootstrap is running or has ended
Booted == boot.at # "none"

StepDone(name) == \E i \in 1..Len(boot.steps) : boot.steps[i].name = name

\* the steps of main ran in their order and none ran after a failed one;
\* the scraper started with both directories there, the data were checked
\* after the scraper ended with status 0, and the notebook was started after
\* a check that found a CSV file
C26_FixedOrder ==
    Booted =>
        /\ Len(boot.steps) <= Len(BootSteps)
        /\ \A i \in 1..Len(boot.steps) :
              /\ boot.steps[i].name = BootSteps[i]
              /\ i < Len(boot.steps) => boot.steps[i].ok
        /\ (pc # "idle" \/ StepDone("run_scraper")) =>
              /\ StepDone("ensure_directory")
              /\ {"data", "notebooks"} \subseteq boot.dirs
        /\ StepDone("check_data") => boot.returncode = 0
        /\ boot.launched =>
              /\ boot.returncode = 0
              /\ DOMAIN files # {}
              /\ boot.at = "end"

\* C26 (as claimed): the bootstrap runs its steps in a fixed order and stops
\* at the first failure: directories before the scraper, the data check only
\* after the scraper succeeded, the notebook only if the scraper succeeded
\* and the data directory holds a CSV file; when the pass collected no data
\* at all (it saved no series), the notebook is never launched.
C26_BootstrapStopsWithoutData ==
    /\ C26_FixedOrder
    /\ (Booted /\ SavedPositions = {}) => ~boot.launched

====
